---- MODULE Spec2Model ----
(***************************************************************************)
(* StepResultsManager (apps/utils/step_results_manager.py): a two-tier     *)
(* cache of pipeline step results.  The session tier is the Streamlit      *)
(* st.session_state mapping, the durable tier is one pickle file per step  *)
(* under artifacts_dir.                                                    *)
(*                                                                         *)
(* Environment: one process, one session at a time.  Writing or deleting   *)
(* a file may fail (read-only directory, disk full); a file that exists    *)
(* can always be opened for reading, so a read fails only on its content.  *)
(***************************************************************************)
EXTENDS Integers, Sequences, FiniteSets, TLC

\* ------------------------------------------------------------------ bounds
\* The longest list a step produces as its result.
MaxItems == 0
\* The largest number, text length, item count and row count of a value that a
\* pipeline step puts into st.session_state itself.
MaxSize == 1
\* The directories a caller may name as artifacts_dir.
NumDirs == 4

\* ---------------------------------------------------------------- payloads
\* A Python value: its type tag, a number (the int, the length of the str,
\* the row count of the DataFrame) and, for list and dict, the items.  A dict
\* holds its values under the keys 1..n.
None == [tag |-> "none", n |-> 0, items |-> <<>>]
Number(i) == [tag |-> "int", n |-> i, items |-> <<>>]
Text(len) == [tag |-> "str", n |-> len, items |-> <<>>]
ListOf(xs) == [tag |-> "list", n |-> 0, items |-> xs]
DictOf(xs) == [tag |-> "dict", n |-> 0, items |-> xs]
DataFrame(rows) == [tag |-> "frame", n |-> rows, items |-> <<>>]

\* Unpickler-internal stack objects: the MARK object and the DataFrame class.
Mark == [tag |-> "mark", n |-> 0, items |-> <<>>]
FrameClass == [tag |-> "class", n |-> 0, items |-> <<>>]

RECURSIVE Zeros(_)
Zeros(k) == IF k = 0 THEN <<>> ELSE Append(Zeros(k - 1), Number(0))

\* The payloads of this model: None, a number and lists, the empty one
\* first.
Numbers == {Number(0)}
Lists == {ListOf(Zeros(k)) : k \in 0..MaxItems}
Payloads == {None} \cup Numbers \cup Lists

\* What a pipeline step may assign to a key of st.session_state: a value of
\* any of the types _is_valid_data tells apart, empty or not.
SessionValues ==
    {None}
    \cup {Number(i) : i \in 0..MaxSize}
    \cup {Text(i) : i \in 0..MaxSize}
    \cup {ListOf(Zeros(i)) : i \in 0..MaxSize}
    \cup {DictOf(Zeros(i)) : i \in 0..MaxSize}
    \cup {DataFrame(i) : i \in 0..MaxSize}

\* ------------------------------------------------------------------ pickle
Tok(op, arg) == [op |-> op, arg |-> arg]
PROTO == Tok("PROTO", 4)
STOP == Tok(".", 0)

\* Pickler.save: the opcodes written for v, up to the first object that
\* cannot be pickled (ok = FALSE: PicklingError, as for a lambda).
RECURSIVE save(_), save_seq(_, _), save_items(_, _)
save(v) ==
    CASE v.tag = "none" -> [ok |-> TRUE, out |-> <<Tok("N", 0)>>]
      [] v.tag = "int" -> [ok |-> TRUE, out |-> <<Tok("K", v.n)>>]
      [] v.tag = "str" -> [ok |-> TRUE, out |-> <<Tok("U", v.n)>>]
      [] v.tag = "frame" ->
            [ok |-> TRUE, out |-> <<Tok("c", 0), Tok("K", v.n), Tok("R", 0)>>]
      [] v.tag = "list" ->
            LET r == save_seq(v.items, 1)
            IN  [ok |-> r.ok,
                 out |-> <<Tok("]", 0)>> \o
                         (IF Len(v.items) = 0 THEN <<>>
                          ELSE IF Len(v.items) = 1
                               THEN r.out \o (IF r.ok THEN <<Tok("a", 0)>> ELSE <<>>)
                               ELSE <<Tok("(", 0)>> \o r.out \o
                                    (IF r.ok THEN <<Tok("e", 0)>> ELSE <<>>))]
      [] v.tag = "dict" ->
            LET r == save_items(v.items, 1)
            IN  [ok |-> r.ok,
                 out |-> <<Tok("}", 0)>> \o
                         (IF Len(v.items) = 0 THEN <<>>
                          ELSE IF Len(v.items) = 1
                               THEN r.out \o (IF r.ok THEN <<Tok("s", 0)>> ELSE <<>>)
                               ELSE <<Tok("(", 0)>> \o r.out \o
                                    (IF r.ok THEN <<Tok("u", 0)>> ELSE <<>>))]
      [] OTHER -> [ok |-> FALSE, out |-> <<>>]

save_seq(xs, i) ==
    IF i > Len(xs) THEN [ok |-> TRUE, out |-> <<>>]
    ELSE LET h == save(xs[i])
         IN  IF ~h.ok THEN h
             ELSE LET t == save_seq(xs, i + 1)
                  IN  [ok |-> t.ok, out |-> h.out \o t.out]

save_items(xs, i) ==
    IF i > Len(xs) THEN [ok |-> TRUE, out |-> <<>>]
    ELSE LET h == save(xs[i])
         IN  IF ~h.ok THEN [ok |-> FALSE, out |-> <<Tok("K", i)>> \o h.out]
             ELSE LET t == save_items(xs, i + 1)
                  IN  [ok |-> t.ok, out |-> <<Tok("K", i)>> \o h.out \o t.out]

\* pickle.dump(data, f): the bytes of a complete pickle, or the bytes
\* produced before the PicklingError.
pickle_dump(v) ==
    LET r == save(v)
    IN  [ok |-> r.ok,
         out |-> <<PROTO>> \o r.out \o (IF r.ok THEN <<STOP>> ELSE <<>>)]

\* The index of the topmost MARK on the unpickler's stack (0: none).
RECURSIVE top_mark(_, _)
top_mark(stack, i) ==
    IF i = 0 THEN 0
    ELSE IF stack[i].tag = "mark" THEN i ELSE top_mark(stack, i - 1)

\* dict.__setitem__ for the pairs k1, v1, k2, v2, ... of kvs, from index i.
RECURSIVE set_items(_, _, _)
set_items(d, kvs, i) ==
    IF i > Len(kvs) THEN [ok |-> TRUE, value |-> d]
    ELSE IF i = Len(kvs) \/ kvs[i].tag # "int" THEN [ok |-> FALSE, value |-> None]
    ELSE LET k == kvs[i].n
             xs == d.items
         IN  IF k = Len(xs) + 1
                 THEN set_items(DictOf(Append(xs, kvs[i + 1])), kvs, i + 2)
             ELSE IF k >= 1 /\ k <= Len(xs)
                 THEN set_items(DictOf([xs EXCEPT ![k] = kvs[i + 1]]), kvs, i + 2)
             ELSE [ok |-> FALSE, value |-> None]

\* Unpickler.load: runs the opcodes from index i on the stack; ok = FALSE is
\* any exception (EOFError on a truncated pickle, UnpicklingError, ...).
RECURSIVE load(_, _, _)
load(bytes, i, stack) ==
    LET fail == [ok |-> FALSE, value |-> None]
        n == Len(stack)
        push(x) == load(bytes, i + 1, Append(stack, x))
        m == top_mark(stack, n)
    IN  IF i > Len(bytes) THEN fail
        ELSE LET op == bytes[i].op
                 arg == bytes[i].arg
             IN  CASE op = "PROTO" -> IF arg <= 5 THEN load(bytes, i + 1, stack) ELSE fail
                   [] op = "N" -> push(None)
                   [] op = "K" -> push(Number(arg))
                   [] op = "U" -> push(Text(arg))
                   [] op = "]" -> push(ListOf(<<>>))
                   [] op = "}" -> push(DictOf(<<>>))
                   [] op = "(" -> push(Mark)
                   [] op = "c" -> push(FrameClass)
                   [] op = "a" ->
                        IF n >= 2 /\ stack[n - 1].tag = "list"
                        THEN load(bytes, i + 1,
                                  Append(SubSeq(stack, 1, n - 2),
                                         ListOf(Append(stack[n - 1].items, stack[n]))))
                        ELSE fail
                   [] op = "e" ->
                        IF m >= 2 /\ stack[m - 1].tag = "list"
                        THEN load(bytes, i + 1,
                                  Append(SubSeq(stack, 1, m - 2),
                                         ListOf(stack[m - 1].items \o SubSeq(stack, m + 1, n))))
                        ELSE fail
                   [] op = "s" ->
                        IF n >= 3 /\ stack[n - 2].tag = "dict"
                        THEN LET d == set_items(stack[n - 2], SubSeq(stack, n - 1, n), 1)
                             IN  IF d.ok
                                 THEN load(bytes, i + 1,
                                           Append(SubSeq(stack, 1, n - 3), d.value))
                                 ELSE fail
                        ELSE fail
                   [] op = "u" ->
                        IF m >= 2 /\ stack[m - 1].tag = "dict"
                        THEN LET d == set_items(stack[m - 1], SubSeq(stack, m + 1, n), 1)
                             IN  IF d.ok
                                 THEN load(bytes, i + 1,
                                           Append(SubSeq(stack, 1, m - 2), d.value))
                                 ELSE fail
                        ELSE fail
                   [] op = "R" ->
                        IF n >= 2 /\ stack[n - 1].tag = "class" /\ stack[n].tag = "int"
                        THEN load(bytes, i + 1,
                                  Append(SubSeq(stack, 1, n - 2), DataFrame(stack[n].n)))
                        ELSE fail
                   [] op = "." ->
                        IF n >= 1 /\ stack[n].tag \notin {"mark", "class"}
                        THEN [ok |-> TRUE, value |-> stack[n]]
                        ELSE fail
                   [] OTHER -> fail

\* pickle.load(f)
pickle_load(bytes) == load(bytes, 1, <<>>)

\* ----------------------------------------------------------------- catalog
\* STEP_MAPPINGS: step key -> file name.  Two of the eighteen entries stand
\* for the catalog; every operation treats the entries alike.
STEP_MAPPINGS ==
    [k \in {"gnn_predictions", "training_time"} |->
        IF k = "gnn_predictions" THEN "streamlit_gnn_predictions.pkl"
        ELSE "training_time.pkl"]

\* STEP_MAPPINGS.keys(): the keys in declaration order.
StepKeys == <<"gnn_predictions", "training_time">>
Catalog == DOMAIN STEP_MAPPINGS

\* A key that is not in STEP_MAPPINGS.
UnknownKey == "not_a_step"
Keys == Catalog \cup {UnknownKey}
FileNames == {STEP_MAPPINGS[k] : k \in Catalog}

\* What the callers store under a key: a timing step a number, a prediction
\* step a list of predictions, and either of them None when it has no
\* result; under a key outside the catalog, anything.
PayloadsOf(key) ==
    IF key = "training_time" THEN {None} \cup Numbers
    ELSE IF key = "gnn_predictions" THEN {None} \cup Lists
    ELSE Payloads

\* st.session_state without a key, and artifacts_dir without a file.
NoEntry == [present |-> FALSE, value |-> None]
Entry(v) == [present |-> TRUE, value |-> v]
NoFile == [exists |-> FALSE, bytes |-> <<>>]
File(bytes) == [exists |-> TRUE, bytes |-> bytes]

VARIABLES
    session_state,  \* st.session_state: key -> NoEntry or Entry(value)
    disk,           \* artifacts_dir: file name -> NoFile or File(bytes)
    last,           \* the last call: operation, arguments, return value
    manager_instance,   \* the module global _manager_instance
    directories     \* the directories that exist on the file system

singleton == <<manager_instance, directories>>
vars == <<session_state, disk, last, manager_instance, directories>>

\* ---------------------------------------------------------------- validity
\* _is_valid_data as "return bool(data)" (with "not data.empty" for a
\* DataFrame): 0 and "" count as no data.
is_valid_data_truthy(data) ==
    CASE data.tag = "none" -> FALSE
      [] data.tag = "dict" -> Len(data.items) > 0
      [] data.tag = "list" -> Len(data.items) > 0
      [] data.tag = "frame" -> data.n > 0
      [] OTHER -> data.n > 0

\* _is_valid_data: None, an empty dict, an empty list and an empty DataFrame
\* are no data; everything else is.
is_valid_data(data) ==
    CASE data.tag = "none" -> FALSE
      [] data.tag = "dict" -> Len(data.items) > 0
      [] data.tag = "list" -> Len(data.items) > 0
      [] data.tag = "frame" -> data.n > 0
      [] OTHER -> TRUE

\* step_key in st.session_state and self._is_valid_data(st.session_state[step_key])
in_session(ss, step_key) ==
    ss[step_key].present /\ is_valid_data(ss[step_key].value)

\* filepath.exists()
in_file(d, step_key) == d[STEP_MAPPINGS[step_key]].exists

\* ------------------------------------------------------------ durable tier
\* save_step_result with the file opened in append mode ('ab'): the new
\* pickle lands behind the old content.
save_step_result_append(d, step_key, data) ==
    IF step_key \notin Catalog THEN {[ret |-> FALSE, disk |-> d]}
    ELSE LET filename == STEP_MAPPINGS[step_key]
             p == pickle_dump(data)
             written(bytes) == [d EXCEPT ![filename] = File(d[filename].bytes \o bytes)]
         IN  {[ret |-> FALSE, disk |-> d], [ret |-> FALSE, disk |-> written(<<>>)]}
             \cup (IF p.ok THEN {[ret |-> TRUE, disk |-> written(p.out)]} ELSE {})

\* save_step_result that warns about an unknown key and goes on to report
\* success.
save_step_result_unknown_true(d, step_key, data) ==
    IF step_key \notin Catalog THEN {[ret |-> TRUE, disk |-> d]}
    ELSE LET filename == STEP_MAPPINGS[step_key]
             p == pickle_dump(data)
             written(bytes) == [d EXCEPT ![filename] = File(bytes)]
         IN  {[ret |-> FALSE, disk |-> d], [ret |-> FALSE, disk |-> written(<<>>)]}
             \cup (IF p.ok THEN {[ret |-> TRUE, disk |-> written(p.out)]} ELSE {})

\* save_step_result: the outcomes of one call, [ret, disk].  open(.., 'wb')
\* may fail and leave the file alone; once it succeeds the file is truncated.
\* pickle.dump buffers a frame (64 KiB) before it writes, and the payloads
\* here are smaller: the file gets the complete pickle when dump returns,
\* and stays empty when dump raises (PicklingError, disk full).
save_step_result(d, step_key, data) ==
    IF step_key \notin Catalog THEN {[ret |-> FALSE, disk |-> d]}
    ELSE LET filename == STEP_MAPPINGS[step_key]
             p == pickle_dump(data)
             written(bytes) == [d EXCEPT ![filename] = File(bytes)]
         IN  {[ret |-> FALSE, disk |-> d], [ret |-> FALSE, disk |-> written(<<>>)]}
             \cup (IF p.ok THEN {[ret |-> TRUE, disk |-> written(p.out)]} ELSE {})

\* load_step_result with the existence test inverted.
load_step_result_inverted(d, step_key) ==
    IF step_key \notin Catalog THEN None
    ELSE LET f == d[STEP_MAPPINGS[step_key]]
         IN  IF f.exists THEN None
             ELSE LET r == pickle_load(f.bytes)
                  IN  IF r.ok THEN r.value ELSE None

\* load_step_result: the data of the file, or None.
load_step_result(d, step_key) ==
    IF step_key \notin Catalog THEN None
    ELSE LET f == d[STEP_MAPPINGS[step_key]]
         IN  IF ~f.exists THEN None
             ELSE LET r == pickle_load(f.bytes)
                  IN  IF r.ok THEN r.value ELSE None

\* ------------------------------------------------------------ session tier
\* save_to_session_and_file that keeps unknown keys out of the session.
save_to_session_and_file_checked(ss, d, step_key, data) ==
    {[ret |-> o.ret,
      session |-> IF step_key \in Catalog THEN [ss EXCEPT ![step_key] = Entry(data)] ELSE ss,
      disk |-> o.disk] :
        o \in save_step_result(d, step_key, data)}

\* save_to_session_and_file: the outcomes [ret, session, disk].
save_to_session_and_file(ss, d, step_key, data) ==
    {[ret |-> o.ret, session |-> [ss EXCEPT ![step_key] = Entry(data)], disk |-> o.disk] :
        o \in save_step_result(d, step_key, data)}

\* load_from_file_to_session without the short cut: it goes to the file
\* whatever the session holds.
load_from_file_to_session_always_reads(ss, d, step_key, force) ==
    LET data == load_step_result(d, step_key)
    IN  IF data # None
        THEN [ret |-> TRUE, session |-> [ss EXCEPT ![step_key] = Entry(data)],
              read |-> TRUE]
        ELSE [ret |-> FALSE, session |-> ss, read |-> TRUE]

\* load_from_file_to_session that ignores force.
load_from_file_to_session_no_force(ss, d, step_key, force) ==
    IF in_session(ss, step_key)
    THEN [ret |-> TRUE, session |-> ss, read |-> FALSE]
    ELSE LET data == load_step_result(d, step_key)
         IN  IF data # None
             THEN [ret |-> TRUE, session |-> [ss EXCEPT ![step_key] = Entry(data)],
                   read |-> TRUE]
             ELSE [ret |-> FALSE, session |-> ss, read |-> TRUE]

\* load_from_file_to_session that tests st.session_state.pop(step_key): the
\* entry it looks at is gone afterwards.
load_from_file_to_session_pop(ss, d, step_key, force) ==
    LET popped == IF ~force /\ ss[step_key].present
                  THEN [ss EXCEPT ![step_key] = NoEntry] ELSE ss
    IN  IF ~force /\ in_session(ss, step_key)
        THEN [ret |-> TRUE, session |-> popped, read |-> FALSE]
        ELSE LET data == load_step_result(d, step_key)
             IN  IF data # None
                 THEN [ret |-> TRUE, session |-> [popped EXCEPT ![step_key] = Entry(data)],
                       read |-> TRUE]
                 ELSE [ret |-> FALSE, session |-> popped, read |-> TRUE]

\* load_from_file_to_session that installs whatever load_step_result
\* returned, None included.
load_from_file_to_session_install_none(ss, d, step_key, force) ==
    IF ~force /\ in_session(ss, step_key)
    THEN [ret |-> TRUE, session |-> ss, read |-> FALSE]
    ELSE LET data == load_step_result(d, step_key)
         IN  [ret |-> data # None, session |-> [ss EXCEPT ![step_key] = Entry(data)],
              read |-> TRUE]

\* load_from_file_to_session without the "return False" of the branch where
\* the file gave nothing: it reports success on every path.
load_from_file_to_session_true(ss, d, step_key, force) ==
    IF ~force /\ in_session(ss, step_key)
    THEN [ret |-> TRUE, session |-> ss, read |-> FALSE]
    ELSE LET data == load_step_result(d, step_key)
         IN  IF data # None
             THEN [ret |-> TRUE, session |-> [ss EXCEPT ![step_key] = Entry(data)],
                   read |-> TRUE]
             ELSE [ret |-> TRUE, session |-> ss, read |-> TRUE]

\* load_from_file_to_session: [ret, session, read]; read tells whether the
\* call went to the file (load_step_result) or stopped at the session entry.
load_from_file_to_session(ss, d, step_key, force) ==
    IF ~force /\ in_session(ss, step_key)
    THEN [ret |-> TRUE, session |-> ss, read |-> FALSE]
    ELSE LET data == load_step_result(d, step_key)
         IN  IF data # None
             THEN [ret |-> TRUE, session |-> [ss EXCEPT ![step_key] = Entry(data)],
                   read |-> TRUE]
             ELSE [ret |-> FALSE, session |-> ss, read |-> TRUE]

\* restore_all_steps, from the i-th key on: [results, session].
RECURSIVE restore_from(_, _, _, _, _)
restore_from(ss, d, force, i, results) ==
    IF i > Len(StepKeys) THEN [results |-> results, session |-> ss]
    ELSE LET r == load_from_file_to_session(ss, d, StepKeys[i], force)
         IN  restore_from(r.session, d, force, i + 1,
                          [results EXCEPT ![StepKeys[i]] = r.ret])

NoResults == [k \in Catalog |-> FALSE]

restore_all_steps(ss, d, force) == restore_from(ss, d, force, 1, NoResults)

\* get_step_status; file_path is "" where the source has None.
get_step_status(ss, d) ==
    [k \in Catalog |->
        [in_session |-> in_session(ss, k),
         in_file |-> in_file(d, k),
         file_path |-> IF in_file(d, k) THEN STEP_MAPPINGS[k] ELSE ""]]

\* clear_step that reports success although unlink raised.
clear_step_swallow(ss, d, step_key, clear_session, clear_file) ==
    LET ss2 == IF clear_session /\ ss[step_key].present
               THEN [ss EXCEPT ![step_key] = NoEntry] ELSE ss
    IN  IF clear_file /\ step_key \in Catalog /\ d[STEP_MAPPINGS[step_key]].exists
        THEN {[ret |-> TRUE, session |-> ss2,
               disk |-> [d EXCEPT ![STEP_MAPPINGS[step_key]] = NoFile]],
              [ret |-> TRUE, session |-> ss2, disk |-> d]}
        ELSE {[ret |-> TRUE, session |-> ss2, disk |-> d]}

\* clear_step that unlinks the file whatever clear_file says.
clear_step_always_unlinks(ss, d, step_key, clear_session, clear_file) ==
    LET ss2 == IF clear_session /\ ss[step_key].present
               THEN [ss EXCEPT ![step_key] = NoEntry] ELSE ss
    IN  IF step_key \in Catalog /\ d[STEP_MAPPINGS[step_key]].exists
        THEN {[ret |-> TRUE, session |-> ss2,
               disk |-> [d EXCEPT ![STEP_MAPPINGS[step_key]] = NoFile]],
              [ret |-> FALSE, session |-> ss2, disk |-> d]}
        ELSE {[ret |-> TRUE, session |-> ss2, disk |-> d]}

\* clear_step that empties st.session_state (st.session_state.clear()) where
\* the source deletes one key.
clear_step_clear_all(ss, d, step_key, clear_session, clear_file) ==
    LET ss2 == IF clear_session /\ ss[step_key].present
               THEN [k \in DOMAIN ss |-> NoEntry] ELSE ss
    IN  IF clear_file /\ step_key \in Catalog /\ d[STEP_MAPPINGS[step_key]].exists
        THEN {[ret |-> TRUE, session |-> ss2,
               disk |-> [d EXCEPT ![STEP_MAPPINGS[step_key]] = NoFile]],
              [ret |-> FALSE, session |-> ss2, disk |-> d]}
        ELSE {[ret |-> TRUE, session |-> ss2, disk |-> d]}

\* clear_step: the outcomes [ret, session, disk]; filepath.unlink() may raise.
\* The del cannot: the key was found in st.session_state just before.
clear_step(ss, d, step_key, clear_session, clear_file) ==
    LET ss2 == IF clear_session /\ ss[step_key].present
               THEN [ss EXCEPT ![step_key] = NoEntry] ELSE ss
    IN  IF clear_file /\ step_key \in Catalog /\ d[STEP_MAPPINGS[step_key]].exists
        THEN {[ret |-> TRUE, session |-> ss2,
               disk |-> [d EXCEPT ![STEP_MAPPINGS[step_key]] = NoFile]],
              [ret |-> FALSE, session |-> ss2, disk |-> d]}
        ELSE {[ret |-> TRUE, session |-> ss2, disk |-> d]}

\* clear_all_steps that gives up at the first step it could not clear: the
\* steps after it are neither cleared nor reported.
RECURSIVE clear_from_stop(_, _, _, _, _, _)
clear_from_stop(ss, d, clear_session, clear_files, i, results) ==
    IF i > Len(StepKeys) THEN {[results |-> results, session |-> ss, disk |-> d]}
    ELSE UNION {IF o.ret
                THEN clear_from_stop(o.session, o.disk, clear_session, clear_files, i + 1,
                                     [results EXCEPT ![StepKeys[i]] = o.ret])
                ELSE {[results |-> results, session |-> o.session, disk |-> o.disk]} :
                   o \in clear_step(ss, d, StepKeys[i], clear_session, clear_files)}

\* clear_all_steps, from the i-th key on: the outcomes [results, session, disk].
RECURSIVE clear_from(_, _, _, _, _, _)
clear_from(ss, d, clear_session, clear_files, i, results) ==
    IF i > Len(StepKeys) THEN {[results |-> results, session |-> ss, disk |-> d]}
    ELSE UNION {clear_from(o.session, o.disk, clear_session, clear_files, i + 1,
                           [results EXCEPT ![StepKeys[i]] = o.ret]) :
                   o \in clear_step(ss, d, StepKeys[i], clear_session, clear_files)}

clear_all_steps(ss, d, clear_session, clear_files) ==
    clear_from(ss, d, clear_session, clear_files, 1, NoResults)

get_missing_steps(ss, d) ==
    SelectSeq(StepKeys, LAMBDA k : ~in_session(ss, k) /\ ~in_file(d, k))

\* get_completed_steps with "and" for "or".
get_completed_steps_and(ss, d) ==
    SelectSeq(StepKeys, LAMBDA k : in_session(ss, k) /\ in_file(d, k))

get_completed_steps(ss, d) ==
    SelectSeq(StepKeys, LAMBDA k : in_session(ss, k) \/ in_file(d, k))

\* --------------------------------------------------------------- singleton
\* A directory is a number of 1..NumDirs; NoDir is the argument None.
Dirs == 1..NumDirs
NoDir == 0

\* _manager_instance = None, and the object StepResultsManager(artifacts_dir)
\* makes; serial tells the objects of successive constructions apart.
NoInstance == [constructed |-> FALSE, artifacts_dir |-> NoDir, serial |-> 0]
StepResultsManager(artifacts_dir, serial) ==
    [constructed |-> TRUE, artifacts_dir |-> artifacts_dir, serial |-> serial]

\* get_step_results_manager that builds a new manager whenever it is given a
\* directory.
get_step_results_manager_rebuild(instance, dirs, artifacts_dir) ==
    IF artifacts_dir # NoDir
    THEN LET m == StepResultsManager(artifacts_dir, instance.serial + 1)
         IN  [raised |-> FALSE, instance |-> m,
              directories |-> dirs \cup {artifacts_dir}, ret |-> m]
    ELSE IF ~instance.constructed
         THEN [raised |-> TRUE, instance |-> instance, directories |-> dirs,
               ret |-> NoInstance]
         ELSE [raised |-> FALSE, instance |-> instance, directories |-> dirs,
               ret |-> instance]

\* get_step_results_manager: [raised, instance, directories, ret] with the
\* global and the file system after the call.  __init__ makes artifacts_dir
\* with mkdir(parents=True, exist_ok=True), which is taken to succeed.
get_step_results_manager(instance, dirs, artifacts_dir) ==
    IF ~instance.constructed
    THEN IF artifacts_dir = NoDir
         THEN [raised |-> TRUE, instance |-> instance, directories |-> dirs,
               ret |-> NoInstance]
         ELSE LET m == StepResultsManager(artifacts_dir, instance.serial + 1)
              IN  [raised |-> FALSE, instance |-> m,
                   directories |-> dirs \cup {artifacts_dir}, ret |-> m]
    ELSE [raised |-> FALSE, instance |-> instance, directories |-> dirs,
          ret |-> instance]

\* ----------------------------------------------------------------- actions
\* The record of a call; the fields an operation does not use keep these
\* values.
Call(op) ==
    [op |-> op, key |-> "", data |-> None, force |-> FALSE,
     clear_session |-> FALSE, clear_file |-> FALSE,
     ret |-> FALSE, value |-> None, read |-> FALSE,
     results |-> NoResults, steps |-> <<>>, status |-> <<>>,
     artifacts_dir |-> NoDir, raised |-> FALSE, instance |-> NoInstance]

Init ==
    /\ session_state = [k \in Keys |-> NoEntry]
    /\ disk = [f \in FileNames |-> NoFile]
    /\ last = Call("init")
    /\ manager_instance = StepResultsManager(1, 1)
    /\ directories = {1}

SaveStepResult ==
    /\ UNCHANGED singleton
    /\ \E k \in Keys :
         \E v \in PayloadsOf(k) :
           \E o \in save_step_result(disk, k, v) :
               /\ disk' = o.disk
               /\ last' = [Call("save_step_result") EXCEPT
                               !.key = k, !.data = v, !.ret = o.ret]
               /\ UNCHANGED session_state

LoadStepResult ==
    /\ UNCHANGED singleton
    /\ \E k \in Keys :
           /\ last' = [Call("load_step_result") EXCEPT
                           !.key = k, !.value = load_step_result(disk, k), !.read = TRUE]
           /\ UNCHANGED <<session_state, disk>>

SaveToSessionAndFile ==
    /\ UNCHANGED singleton
    /\ \E k \in Keys :
         \E v \in PayloadsOf(k) :
           \E o \in save_to_session_and_file(session_state, disk, k, v) :
               /\ session_state' = o.session
               /\ disk' = o.disk
               /\ last' = [Call("save_to_session_and_file") EXCEPT
                               !.key = k, !.data = v, !.ret = o.ret]

LoadFromFileToSession ==
    /\ UNCHANGED singleton
    /\ \E k \in Keys, force \in BOOLEAN :
           LET r == load_from_file_to_session(session_state, disk, k, force)
           IN  /\ session_state' = r.session
               /\ last' = [Call("load_from_file_to_session") EXCEPT
                               !.key = k, !.force = force, !.ret = r.ret, !.read = r.read]
               /\ UNCHANGED disk

RestoreAllSteps ==
    /\ UNCHANGED singleton
    /\ \E force \in BOOLEAN :
           LET r == restore_all_steps(session_state, disk, force)
           IN  /\ session_state' = r.session
               /\ last' = [Call("restore_all_steps") EXCEPT
                               !.force = force, !.results = r.results]
               /\ UNCHANGED disk

\* get_step_status that looks a key up with st.session_state.setdefault: a
\* key that was absent is in the session afterwards, with None.
GetStepStatus_setdefault ==
    /\ last' = [Call("get_step_status") EXCEPT
                    !.status = get_step_status(session_state, disk)]
    /\ session_state' = [k \in Keys |->
            IF k \in Catalog /\ ~session_state[k].present
            THEN Entry(None) ELSE session_state[k]]
    /\ UNCHANGED disk
    /\ UNCHANGED singleton

GetStepStatus ==
    /\ last' = [Call("get_step_status") EXCEPT
                    !.status = get_step_status(session_state, disk)]
    /\ UNCHANGED <<session_state, disk>>
    /\ UNCHANGED singleton

ClearStep ==
    /\ UNCHANGED singleton
    /\ \E k \in Keys, cs \in BOOLEAN, cf \in BOOLEAN :
           \E o \in clear_step(session_state, disk, k, cs, cf) :
               /\ session_state' = o.session
               /\ disk' = o.disk
               /\ last' = [Call("clear_step") EXCEPT
                               !.key = k, !.clear_session = cs, !.clear_file = cf,
                               !.ret = o.ret]

ClearAllSteps ==
    /\ UNCHANGED singleton
    /\ \E cs \in BOOLEAN, cf \in BOOLEAN :
           \E o \in clear_all_steps(session_state, disk, cs, cf) :
               /\ session_state' = o.session
               /\ disk' = o.disk
               /\ last' = [Call("clear_all_steps") EXCEPT
                               !.clear_session = cs, !.clear_file = cf,
                               !.results = o.results]

GetMissingSteps ==
    /\ last' = [Call("get_missing_steps") EXCEPT
                    !.steps = get_missing_steps(session_state, disk)]
    /\ UNCHANGED <<session_state, disk>>
    /\ UNCHANGED singleton

GetCompletedSteps ==
    /\ last' = [Call("get_completed_steps") EXCEPT
                    !.steps = get_completed_steps(session_state, disk)]
    /\ UNCHANGED <<session_state, disk>>
    /\ UNCHANGED singleton

\* A pipeline step assigns st.session_state[key] itself.
SetSessionState ==
    /\ UNCHANGED singleton
    /\ \E k \in Keys :
         \E v \in PayloadsOf(k) :
           /\ session_state' = [session_state EXCEPT ![k] = Entry(v)]
           /\ last' = [Call("set_session_state") EXCEPT !.key = k, !.data = v]
           /\ UNCHANGED disk

\* The session ends and a new one starts: st.session_state is empty, the
\* files stay.
EndSession ==
    /\ session_state' = [k \in Keys |-> NoEntry]
    /\ last' = Call("end_session")
    /\ UNCHANGED disk
    /\ UNCHANGED singleton

Next ==
    \/ SaveStepResult
    \/ LoadStepResult
    \/ SaveToSessionAndFile
    \/ LoadFromFileToSession
    \/ RestoreAllSteps
    \/ GetStepStatus
    \/ ClearStep
    \/ ClearAllSteps
    \/ GetMissingSteps
    \/ GetCompletedSteps
    \/ SetSessionState
    \/ EndSession

Spec == Init /\ [][Next]_vars

\* -------------------------------------------------- the session on its own
\* A pipeline step assigns any value to st.session_state[key], past the
\* manager.
AssignSessionState ==
    /\ UNCHANGED singleton
    /\ \E k \in Keys :
         \E v \in SessionValues :
           /\ session_state' = [session_state EXCEPT ![k] = Entry(v)]
           /\ last' = [Call("set_session_state") EXCEPT !.key = k, !.data = v]
           /\ UNCHANGED disk

\* The queries of the manager over a session filled by the pipeline steps.
SessionNext ==
    \/ AssignSessionState
    \/ GetStepStatus
    \/ GetMissingSteps
    \/ GetCompletedSteps

SessionSpec == Init /\ [][SessionNext]_vars

\* ------------------------------------------------- the accessor on its own
\* A process before its first get_step_results_manager: no manager yet, and
\* any of the directories may exist already.
SingletonInit ==
    /\ session_state = [k \in Keys |-> NoEntry]
    /\ disk = [f \in FileNames |-> NoFile]
    /\ last = Call("init")
    /\ manager_instance = NoInstance
    /\ directories \in SUBSET Dirs

GetStepResultsManager ==
    \E artifacts_dir \in {NoDir} \cup Dirs :
        LET r == get_step_results_manager(manager_instance, directories, artifacts_dir)
        IN  /\ manager_instance' = r.instance
            /\ directories' = r.directories
            /\ last' = [Call("get_step_results_manager") EXCEPT
                            !.artifacts_dir = artifacts_dir, !.raised = r.raised,
                            !.instance = r.ret]
            /\ UNCHANGED <<session_state, disk>>

SingletonNext == GetStepResultsManager

SingletonSpec == SingletonInit /\ [][SingletonNext]_vars

\* ------------------------------------------------------------------ claims
InSeq(x, seq) == \E i \in 1..Len(seq) : seq[i] = x

\* The operations that can change a file, and those that take a step key.
DurableWriters ==
    {"save_step_result", "save_to_session_and_file", "clear_step", "clear_all_steps"}
KeyedOps ==
    {"save_step_result", "load_step_result", "save_to_session_and_file",
     "load_from_file_to_session", "clear_step"}

\* C1: a successful save_step_result(key, v) of a valid payload v makes
\* load_step_result(key) return v; no operation other than a save or a clear
\* changes what load_step_result returns for any step; and a
\* load_step_result call returns exactly that value.
C1_RoundTrip ==
    [][/\ (last'.op = "save_step_result" /\ last'.ret /\ is_valid_data(last'.data))
            => load_step_result(disk', last'.key) = last'.data
       /\ last'.op \notin DurableWriters
            => \A k \in Catalog : load_step_result(disk', k) = load_step_result(disk, k)
       /\ last'.op = "load_step_result"
            => last'.value = load_step_result(disk, last'.key)]_vars

\* A read of a catalog step returned a valid payload.
C1_Witness ==
    /\ last.op = "load_step_result"
    /\ last.key \in Catalog
    /\ is_valid_data(last.value)

C4_Partition ==
    LET missing == get_missing_steps(session_state, disk)
        completed == get_completed_steps(session_state, disk)
    IN  /\ \A k \in Catalog : InSeq(k, missing) # InSeq(k, completed)
        /\ \A i \in 1..Len(missing) : missing[i] \in Catalog
        /\ \A i \in 1..Len(completed) : completed[i] \in Catalog
        /\ Len(missing) + Len(completed) = Cardinality(Catalog)
        /\ last.op = "get_missing_steps" => last.steps = missing
        /\ last.op = "get_completed_steps" => last.steps = completed

\* get_completed_steps returned one step while the other one is missing.
C4_Witness ==
    /\ last.op = "get_completed_steps"
    /\ Len(last.steps) = 1
    /\ Len(get_missing_steps(session_state, disk)) = 1

\* C5 as claimed: after clear_step(key, clear_session=True, clear_file=True)
\* on a catalog key, get_step_status()[key] has in_session and in_file
\* False.
C5_Cleared ==
    (/\ last.op = "clear_step"
     /\ last.key \in Catalog
     /\ last.clear_session /\ last.clear_file)
    => LET st == get_step_status(session_state, disk)[last.key]
       IN  ~st.in_session /\ ~st.in_file

\* C5 amended: after that call in_session is False, and in_file is False
\* exactly when the call returned True: when unlink fails the call returns
\* False and the file is still there.
C5_ClearedOnSuccess ==
    (/\ last.op = "clear_step"
     /\ last.key \in Catalog
     /\ last.clear_session /\ last.clear_file)
    => LET st == get_step_status(session_state, disk)[last.key]
       IN  ~st.in_session /\ (st.in_file <=> ~last.ret)

\* A full clear of a catalog step succeeded.
C5_Witness ==
    /\ last.op = "clear_step"
    /\ last.key \in Catalog
    /\ last.clear_session /\ last.clear_file /\ last.ret
    /\ ~in_file(disk, last.key)

\* C6: restore_all_steps(force=False) called directly after
\* restore_all_steps(force=False) leaves st.session_state as the first call
\* left it.
C6_RestoreIdempotent ==
    [][(/\ last.op = "restore_all_steps" /\ ~last.force
        /\ last'.op = "restore_all_steps" /\ ~last'.force)
        => session_state' = session_state]_vars

\* restore_all_steps(force=False) restored a step whose file holds an empty
\* result: the entry is not valid, so the next call goes to the file again.
C6_Witness ==
    /\ last.op = "restore_all_steps" /\ ~last.force
    /\ \E k \in Catalog :
        /\ last.results[k]
        /\ session_state[k].present
        /\ ~in_session(session_state, k)

\* C7: when the session ends right after a successful
\* save_step_result(key, v) of a valid payload v, a
\* load_from_file_to_session(key) in the new session returns True and sets
\* the session entry to v; and every load_from_file_to_session call does
\* what that operation gives for the state it is called in.
C7_RestartRecovery ==
    [][/\ (/\ last.op = "save_step_result" /\ last.ret /\ is_valid_data(last.data)
           /\ last'.op = "end_session")
            => LET r == load_from_file_to_session(session_state', disk', last.key, FALSE)
               IN  /\ r.ret
                   /\ r.session = [k \in Keys |-> IF k = last.key THEN Entry(last.data)
                                                   ELSE NoEntry]
       /\ last'.op = "load_from_file_to_session"
            => LET r == load_from_file_to_session(session_state, disk, last'.key, last'.force)
               IN  last'.ret = r.ret /\ session_state' = r.session]_vars

\* An unforced load into an otherwise empty session went to the file and
\* installed a valid payload.
C7_Witness ==
    /\ last.op = "load_from_file_to_session"
    /\ ~last.force /\ last.read /\ last.ret
    /\ last.key \in Catalog
    /\ in_session(session_state, last.key)
    /\ \A k \in Keys \ {last.key} : ~session_state[k].present

\* C8 as claimed: with a key that is not in the catalog, save_step_result
\* returns False, load_step_result returns None and clear_step with
\* clear_file=True returns False.
C8_UnknownFails ==
    last.key = UnknownKey
    => /\ last.op = "save_step_result" => ~last.ret
       /\ last.op = "load_step_result" => last.value = None
       /\ (last.op = "clear_step" /\ last.clear_file) => ~last.ret

\* C8 amended: with a key that is not in the catalog, save_step_result
\* returns False and load_step_result returns None, while clear_step with
\* clear_file=True returns True; none of the three touches a file.
C8_UnknownOutcomes ==
    [][last'.key = UnknownKey
        => /\ last'.op = "save_step_result" => (~last'.ret /\ disk' = disk)
           /\ last'.op = "load_step_result" => (last'.value = None /\ disk' = disk)
           /\ (last'.op = "clear_step" /\ last'.clear_file)
                => (last'.ret /\ disk' = disk)]_vars

\* clear_step with clear_file=True returned True for the unknown key.
C8_Witness ==
    /\ last.op = "clear_step"
    /\ last.key = UnknownKey
    /\ last.clear_file /\ last.ret

\* C9: save_to_session_and_file(key, v) sets the session entry of key to v
\* for every key and every outcome of the write, and its return value and
\* its effect on the files are an outcome of save_step_result(key, v).
C9_SessionUnconditional ==
    [][last'.op = "save_to_session_and_file"
        => /\ session_state'[last'.key] = Entry(last'.data)
           /\ [ret |-> last'.ret, disk |-> disk']
                \in save_step_result(disk, last'.key, last'.data)]_vars

\* save_to_session_and_file with the unknown key returned False and left the
\* payload in the session.
C9_Witness ==
    /\ last.op = "save_to_session_and_file"
    /\ last.key = UnknownKey
    /\ ~last.ret
    /\ session_state[UnknownKey] = Entry(last.data)

\* C10 as claimed: no operation of the manager given a key outside the
\* catalog creates an entry for it, in st.session_state or in the files.
C10_NoUnknownEntry ==
    [][(last'.op \in KeyedOps /\ last'.key = UnknownKey)
        => /\ disk' = disk
           /\ session_state'[UnknownKey].present => session_state[UnknownKey].present]_vars

\* C10 amended: an operation given a key outside the catalog changes no
\* file, and none but save_to_session_and_file creates a session entry for
\* it; save_to_session_and_file returns False and leaves the payload in
\* st.session_state under that key.
C10_UnknownOnlyInSession ==
    [][(last'.op \in KeyedOps /\ last'.key = UnknownKey)
        => /\ disk' = disk
           /\ last'.op # "save_to_session_and_file"
                => (session_state'[UnknownKey].present => session_state[UnknownKey].present)
           /\ last'.op = "save_to_session_and_file"
                => (~last'.ret /\ session_state'[UnknownKey] = Entry(last'.data))]_vars

\* A load for the unknown key failed and left no entry for it.
C10_Witness ==
    /\ last.op = "load_from_file_to_session"
    /\ last.key = UnknownKey
    /\ ~last.ret
    /\ ~session_state[UnknownKey].present

\* C12: restore_all_steps and clear_all_steps report on every key of the
\* catalog and on nothing else, and what they report and do for a key is what
\* the call for that key alone (load_from_file_to_session, clear_step) would
\* report and do from the same state, whether or not another key failed.
C12_BulkIsolated ==
    [][/\ last'.op = "restore_all_steps"
            => /\ DOMAIN last'.results = Catalog
               /\ \A k \in Catalog :
                    LET r == load_from_file_to_session(session_state, disk, k, last'.force)
                    IN  /\ last'.results[k] = r.ret
                        /\ session_state'[k] = r.session[k]
       /\ last'.op = "clear_all_steps"
            => /\ DOMAIN last'.results = Catalog
               /\ \A k \in Catalog :
                    \E o \in clear_step(session_state, disk, k,
                                        last'.clear_session, last'.clear_file) :
                        /\ last'.results[k] = o.ret
                        /\ session_state'[k] = o.session[k]
                        /\ disk'[STEP_MAPPINGS[k]] = o.disk[STEP_MAPPINGS[k]]]_vars

\* clear_all_steps could not unlink the file of the first step, and went on
\* to clear and report the second.
C12_Witness ==
    /\ last.op = "clear_all_steps"
    /\ last.clear_file
    /\ ~last.results[StepKeys[1]]
    /\ in_file(disk, StepKeys[1])
    /\ last.results[StepKeys[2]]
    /\ ~in_file(disk, StepKeys[2])

\* C14: load_from_file_to_session(key, force=False) on a key whose session
\* entry is valid returns True and leaves st.session_state as it was, whatever
\* the file holds; it does not read the file.
C14_SessionWins ==
    [][(/\ last'.op = "load_from_file_to_session"
        /\ ~last'.force
        /\ in_session(session_state, last'.key))
        => /\ last'.ret
           /\ ~last'.read
           /\ session_state' = session_state
           /\ disk' = disk]_vars

\* An unforced load kept a valid entry although the file of the key exists
\* and holds something else.
C14_Witness ==
    /\ last.op = "load_from_file_to_session"
    /\ ~last.force
    /\ last.ret
    /\ ~last.read
    /\ last.key \in Catalog
    /\ in_session(session_state, last.key)
    /\ in_file(disk, last.key)
    /\ load_step_result(disk, last.key) # session_state[last.key].value

\* C15: get_step_status, get_missing_steps and get_completed_steps change
\* neither st.session_state nor the files.
C15_Observers ==
    [][last'.op \in {"get_step_status", "get_missing_steps", "get_completed_steps"}
        => (session_state' = session_state /\ disk' = disk)]_vars

\* get_step_status reported a step that is in the session and on disk, and
\* both are still there.
C15_Witness ==
    /\ last.op = "get_step_status"
    /\ \E k \in Catalog :
        /\ last.status[k].in_session
        /\ last.status[k].in_file
        /\ session_state[k].present
        /\ disk[STEP_MAPPINGS[k]].exists

\* C16: clear_step(key) with clear_session=True and clear_file=False removes
\* the session entry of key and nothing else: the files and the other session
\* entries stay, and it returns True also when key had no entry.
C16_ClearSessionOnly ==
    [][(last'.op = "clear_step" /\ last'.clear_session /\ ~last'.clear_file)
        => /\ last'.ret
           /\ disk' = disk
           /\ session_state' = [session_state EXCEPT ![last'.key] = NoEntry]]_vars

\* A session-only clear_step removed the entry of a step and its file is
\* still there, next to the entry of the other step.
C16_Witness ==
    /\ last.op = "clear_step"
    /\ last.clear_session
    /\ ~last.clear_file
    /\ last.ret
    /\ last.key \in Catalog
    /\ ~session_state[last.key].present
    /\ in_file(disk, last.key)
    /\ \E k \in Catalog : k # last.key /\ session_state[k].present

\* C17: the file of a step, once it exists, exists after every call that is
\* not a clear_step of that step or a clear_all_steps with file clearing on.
C17_FilePersists ==
    [][\A k \in Catalog :
        (/\ in_file(disk, k)
         /\ ~(last'.op = "clear_step" /\ last'.key = k /\ last'.clear_file)
         /\ ~(last'.op = "clear_all_steps" /\ last'.clear_file))
            => in_file(disk', k)]_vars

\* The session ended and the file of a step is there, with its data.
C17_Witness ==
    /\ last.op = "end_session"
    /\ \E k \in Catalog : in_file(disk, k) /\ load_step_result(disk, k) # None

\* C18 as claimed: a save_step_result that returns False leaves every file
\* readable as before: load_step_result gives for every step what it gave
\* before the call.
C18_FailedWriteKeeps ==
    [][(last'.op = "save_step_result" /\ ~last'.ret)
        => \A k \in Catalog : load_step_result(disk', k) = load_step_result(disk, k)]_vars

C20_InFileRestorable ==
    \A k \in Catalog :
        get_step_status(session_state, disk)[k].in_file
            => load_from_file_to_session(session_state, disk, k, TRUE).ret

\* C13: get_step_status reports in_session for a step exactly when
\* st.session_state holds the key with a value that is data: not None, not an
\* empty dict, list or DataFrame.  0, "" and non-empty containers are data; a
\* key holding {} is reported as not in the session.
C13_InSessionIffValid ==
    last.op = "get_step_status"
        => \A k \in Catalog :
            LET e == session_state[k]
                v == e.value
                empty == \/ v = None
                         \/ v = DictOf(<<>>)
                         \/ v = ListOf(<<>>)
                         \/ v = DataFrame(0)
            IN  /\ last.status[k].in_session <=> (e.present /\ ~empty)
                /\ (e.present /\ v \in {Number(0), Text(0)}) => last.status[k].in_session
                /\ (e.present /\ v = DictOf(<<>>)) => ~last.status[k].in_session

\* get_step_status found {} under gnn_predictions and 0 under training_time:
\* the first is not in the session, the second is.
C13_Witness ==
    /\ last.op = "get_step_status"
    /\ session_state["gnn_predictions"] = Entry(DictOf(<<>>))
    /\ ~last.status["gnn_predictions"].in_session
    /\ session_state["training_time"] = Entry(Number(0))
    /\ last.status["training_time"].in_session

====
